---- MODULE Spec2Model ----
(***************************************************************************)
(* SOLID ID (src/src/solid-id.ts): 128-bit identifiers made of a 48-bit    *)
(* timestamp, 64 bits of entropy and a CRC-16 checksum, rendered as 22     *)
(* Base62 characters.                                                      *)
(*                                                                         *)
(* Representation.                                                         *)
(*  - A bigint, and every integral JS number that does not fit a machine   *)
(*    word here (nowMs, EPOCH_MS, timestampMs), is a natural number kept   *)
(*    as its little-endian sequence of bytes without leading zero bytes    *)
(*    (0 is <<>>, 258 is <<2, 1>>).  The Big* operators are exact          *)
(*    arbitrary-precision arithmetic on that form.                         *)
(*  - A string is the sequence of its UTF-16 code units ("0A" is           *)
(*    <<48, 65>>), so that string comparison is comparison of code units.  *)
(*  - An optional value is <<>> (undefined) or <<v>>.                      *)
(*  - A call that throws yields [threw |-> TRUE, error |-> kind]; a call   *)
(*    that returns yields [threw |-> FALSE, value |-> v].                  *)
(***************************************************************************)
EXTENDS Integers, Sequences, FiniteSets

VARIABLES
    CRC_TABLE,        \* module state: the CRC lookup table
    ALPHABET_INDEX,   \* module state: character -> Base62 digit
    call,             \* the last generateSolidId call: <<[options, env]>> (<<>> before any call)
    result,           \* the last generateSolidId call: its outcome <<r>>
    earlierCall,      \* some generateSolidId call made before the last one
    earlierResult,    \* and the outcome it had
    text,             \* the last parseSolidId call: its argument (<<s>>)
    parsed,           \* the last parseSolidId call: the returned object <<r>>
    number,           \* the last encodeBase62 call: its argument (<<v>>)
    encoded,          \* the last encodeBase62 call: the returned string
    decInput,         \* the last decodeBase62 call: its argument (<<s>>)
    decoded,          \* the last decodeBase62 call: its outcome
    validated,        \* the last validateSolidId call: <<[id, value]>>
    dated,            \* the last getTimestampFromSolidId call: <<[id, outcome]>>
    effects,          \* the last call of any function: <<[function, reads]>>, what it read from outside
    crcCall,          \* the last direct crc16CCITT call: <<[input, value]>>
    tasks             \* calls in progress, run step by step: task -> its locals

vars == <<CRC_TABLE, ALPHABET_INDEX, call, result, earlierCall, earlierResult,
          text, parsed, number, encoded, decInput, decoded,
          validated, dated, effects, crcCall, tasks>>

-----------------------------------------------------------------------------
(* Optional values and call outcomes *)

Undefined == <<>>
Some(v) == <<v>>
IsDefined(o) == o # <<>>
Val(o) == o[1]

Throw(kind) == [threw |-> TRUE, error |-> kind]
Return(v) == [threw |-> FALSE, value |-> v]

\* the messages of the errors the module throws
CRYPTO_UNAVAILABLE ==
    "Crypto API is not available in this environment; pass options.crypto or use Node >=18 / modern browsers."
OUT_OF_RANGE == "Invalid timestamp value (out of 48-bit range)"

\* the message of decodeBase62, a string of the program and so a sequence of
\* code units like the argument it quotes:
\* `Invalid character in Base62 string: ${c} at position ${i}`

\* 'Invalid character in Base62 string: '
INVALID_CHARACTER_PREFIX ==
    <<73, 110, 118, 97, 108, 105, 100, 32, 99, 104, 97, 114, 97, 99, 116,
      101, 114, 32, 105, 110, 32, 66, 97, 115, 101, 54, 50, 32, 115, 116,
      114, 105, 110, 103, 58, 32>>

\* ' at position '
AT_POSITION ==
    <<32, 97, 116, 32, 112, 111, 115, 105, 116, 105, 111, 110, 32>>

\* `${i}` for an index i >= 0: its decimal digits
RECURSIVE DecimalDigits(_)
DecimalDigits(i) ==
    IF i < 10 THEN <<48 + i>> ELSE DecimalDigits(i \div 10) \o <<48 + (i % 10)>>

\* c is the code unit str[i], i the index counted from 0
INVALID_CHARACTER(c, i) ==
    INVALID_CHARACTER_PREFIX \o <<c>> \o AT_POSITION \o DecimalDigits(i)

-----------------------------------------------------------------------------
(* Bit operations on JS int32 values (all operands here are >= 0, < 2^31) *)

RECURSIVE BitAnd(_, _)
BitAnd(a, b) ==
    IF a = 0 \/ b = 0 THEN 0
    ELSE (a % 2) * (b % 2) + 2 * BitAnd(a \div 2, b \div 2)

RECURSIVE BitOr(_, _)
BitOr(a, b) ==
    IF a = 0 THEN b
    ELSE IF b = 0 THEN a
    ELSE (IF a % 2 = 1 \/ b % 2 = 1 THEN 1 ELSE 0) + 2 * BitOr(a \div 2, b \div 2)

RECURSIVE BitXor(_, _)
BitXor(a, b) ==
    IF a = 0 THEN b
    ELSE IF b = 0 THEN a
    ELSE (((a % 2) + (b % 2)) % 2) + 2 * BitXor(a \div 2, b \div 2)

RECURSIVE Pow2(_)
Pow2(n) == IF n = 0 THEN 1 ELSE 2 * Pow2(n - 1)

-----------------------------------------------------------------------------
(* Arbitrary-precision naturals: little-endian byte sequences *)

RECURSIVE Norm(_)
Norm(a) ==
    IF a = <<>> THEN a
    ELSE IF a[Len(a)] = 0 THEN Norm(SubSeq(a, 1, Len(a) - 1))
    ELSE a

Digit(a, i) == IF i <= Len(a) THEN a[i] ELSE 0

Zeros(n) == [i \in 1..n |-> 0]

RECURSIVE BigFromNat(_)
BigFromNat(n) == IF n = 0 THEN <<>> ELSE <<n % 256>> \o BigFromNat(n \div 256)

RECURSIVE BigToNat(_)
BigToNat(a) == IF a = <<>> THEN 0 ELSE a[1] + 256 * BigToNat(Tail(a))

RECURSIVE MulCarry(_, _, _)
MulCarry(a, m, carry) ==
    IF a = <<>>
    THEN IF carry = 0 THEN <<>> ELSE <<carry % 256>> \o MulCarry(<<>>, m, carry \div 256)
    ELSE LET x == a[1] * m + carry
         IN  <<x % 256>> \o MulCarry(Tail(a), m, x \div 256)

\* a * m for a machine-word m
BigMulSmall(a, m) == Norm(MulCarry(a, m, 0))

RECURSIVE AddCarry(_, _, _)
AddCarry(a, b, carry) ==
    IF a = <<>> /\ b = <<>>
    THEN IF carry = 0 THEN <<>> ELSE <<carry>>
    ELSE LET x == Digit(a, 1) + Digit(b, 1) + carry
         IN  <<x % 256>> \o AddCarry(IF a = <<>> THEN a ELSE Tail(a),
                                     IF b = <<>> THEN b ELSE Tail(b),
                                     x \div 256)

BigAdd(a, b) == Norm(AddCarry(a, b, 0))

RECURSIVE SubBorrow(_, _, _)
SubBorrow(a, b, borrow) ==
    IF a = <<>> THEN <<>>
    ELSE LET x == a[1] - Digit(b, 1) - borrow
         IN  <<(x + 256) % 256>> \o SubBorrow(Tail(a),
                                              IF b = <<>> THEN b ELSE Tail(b),
                                              IF x < 0 THEN 1 ELSE 0)

RECURSIVE BigLessFrom(_, _, _)
BigLessFrom(a, b, i) ==
    IF i = 0 THEN FALSE
    ELSE IF a[i] # b[i] THEN a[i] < b[i]
    ELSE BigLessFrom(a, b, i - 1)

\* a < b
BigLess(a, b) ==
    IF Len(a) # Len(b) THEN Len(a) < Len(b) ELSE BigLessFrom(a, b, Len(a))

\* a - b, for a >= b
BigSub(a, b) == Norm(SubBorrow(a, b, 0))

RECURSIVE DivMod(_, _)
DivMod(a, m) ==
    IF a = <<>> THEN [q |-> <<>>, r |-> 0]
    ELSE LET hi == DivMod(Tail(a), m)
             cur == hi.r * 256 + a[1]
         IN  [q |-> <<cur \div m>> \o hi.q, r |-> cur % m]

\* a / m (truncating) and a % m for a machine-word m
BigDivSmall(a, m) == Norm(DivMod(a, m).q)
BigModSmall(a, m) == DivMod(a, m).r

\* a << n and a >> n
BigShl(a, n) == Norm(Zeros(n \div 8) \o MulCarry(a, Pow2(n % 8), 0))
BigShr(a, n) ==
    IF n \div 8 >= Len(a) THEN <<>>
    ELSE BigDivSmall(SubSeq(a, n \div 8 + 1, Len(a)), Pow2(n % 8))

BigAnd(a, b) ==
    Norm([i \in 1..(IF Len(a) < Len(b) THEN Len(a) ELSE Len(b)) |-> BitAnd(a[i], b[i])])

BigOr(a, b) ==
    Norm([i \in 1..(IF Len(a) < Len(b) THEN Len(b) ELSE Len(a)) |->
             BitOr(Digit(a, i), Digit(b, i))])

One == <<1>>

-----------------------------------------------------------------------------
(* Constants of the module *)

\* mutation: lower case before upper case,
\* '0123456789abcdefghijklmnopqrstuvwxyzABCDEFGHIJKLMNOPQRSTUVWXYZ'
ALPHABET_LowerFirst ==
    [i \in 1..62 |-> IF i <= 10 THEN 47 + i ELSE IF i <= 36 THEN 86 + i ELSE 28 + i]

\* '0123456789ABCDEFGHIJKLMNOPQRSTUVWXYZabcdefghijklmnopqrstuvwxyz'
ALPHABET ==
    [i \in 1..62 |-> IF i <= 10 THEN 47 + i ELSE IF i <= 36 THEN 54 + i ELSE 60 + i]

\* BigInt(ALPHABET.length)
BASE == Len(ALPHABET)

\* the value ALPHABET_INDEX is built with: map[ALPHABET[i]] = i
AlphabetIndexInit ==
    [c \in {ALPHABET[i] : i \in 1..Len(ALPHABET)} |->
        (CHOOSE i \in 1..Len(ALPHABET) : ALPHABET[i] = c) - 1]

\* days from 1970-01-01 to 1985-05-17
EPOCH_DAYS == 5615
SECONDS_PER_DAY == 86400
MS_PER_SECOND == 1000

\* new Date('1985-05-17T00:00:00Z').getTime() = 485136000000
EPOCH_MS == BigMulSmall(BigMulSmall(BigFromNat(EPOCH_DAYS), SECONDS_PER_DAY), MS_PER_SECOND)

TIMESTAMP_BITS == 48
ENTROPY_BITS == 64
CHECKSUM_BITS == 16
ID_LENGTH == 22

TIMESTAMP_MASK == BigSub(BigShl(One, 48), One)
\* mutation: the limit is 2^48 instead of 2^48 - 1
MAX_TIMESTAMP_MS_48_OffByOne == BigShl(One, TIMESTAMP_BITS)

MAX_TIMESTAMP_MS_48 == BigSub(BigShl(One, TIMESTAMP_BITS), One)
SHIFT_FOR_ENTROPY == CHECKSUM_BITS
SHIFT_FOR_TIMESTAMP == ENTROPY_BITS + CHECKSUM_BITS
MASK_CHECKSUM == BigSub(BigShl(One, CHECKSUM_BITS), One)
\* mutation: a mask of 63 bits
MASK_ENTROPY_Short == BigSub(BigShl(One, ENTROPY_BITS - 1), One)

\* mutation: the "- 1n" is missing, which leaves bit 64 alone
MASK_ENTROPY_WithoutMinusOne == BigShl(One, ENTROPY_BITS)
MASK_ENTROPY == BigSub(BigShl(One, ENTROPY_BITS), One)

\* one table entry: crc = i << 8, then 8 times shift and conditional xor
RECURSIVE CrcShift(_, _)
CrcShift(crc, j) ==
    IF j = 0 THEN crc
    ELSE CrcShift(IF BitAnd(crc, 32768) # 0 THEN BitXor(crc * 2, 4129) ELSE crc * 2,
                  j - 1)

\* the value CRC_TABLE is built with
CrcTableInit == [i \in 0..255 |-> BitAnd(CrcShift(i * 256, 8), 65535)]

-----------------------------------------------------------------------------
(* Functions of the module *)

\* the register after the first n bytes of input
\* mutation: the register starts at 0 instead of 0xFFFF
RECURSIVE CrcLoop_ZeroInit(_, _)
CrcLoop_ZeroInit(input, n) ==
    IF n = 0 THEN 0
    ELSE LET crc == CrcLoop_ZeroInit(input, n - 1)
         IN  BitXor(BitAnd(crc * 256, 65280),
                    CRC_TABLE[BitXor(BitAnd(crc \div 256, 255), input[n])])
RECURSIVE CrcLoop(_, _)
CrcLoop(input, n) ==
    IF n = 0 THEN 65535
    ELSE LET crc == CrcLoop(input, n - 1)
         IN  BitXor(BitAnd(crc * 256, 65280),
                    CRC_TABLE[BitXor(BitAnd(crc \div 256, 255), input[n])])

crc16CCITT(input) == BitAnd(CrcLoop(input, Len(input)), 65535)

\* big-endian, exactly byteLength bytes; higher bytes of value are dropped
bigintToBytes(value, byteLength) ==
    [i \in 1..byteLength |-> Digit(value, byteLength - i + 1)]

\* mutation: the digits are returned as they are, without the left padding
padStart_NoPadding(s, n, c) == s
padStart(s, n, c) == IF Len(s) >= n THEN s ELSE [i \in 1..(n - Len(s)) |-> c] \o s

\* mutation: the loop runs while n >= BASE and drops the leading digit
RECURSIVE EncodeLoop_DropsLeading(_)
EncodeLoop_DropsLeading(n) ==
    IF BigLess(n, BigFromNat(BASE)) THEN <<>>
    ELSE EncodeLoop_DropsLeading(BigDivSmall(n, BASE))
             \o <<ALPHABET[BigModSmall(n, BASE) + 1]>>

\* the digits of n, most significant first: result = ALPHABET[n % BASE] + result
RECURSIVE EncodeLoop(_)
EncodeLoop(n) ==
    IF n = <<>> THEN <<>>
    ELSE EncodeLoop(BigDivSmall(n, BASE)) \o <<ALPHABET[BigModSmall(n, BASE) + 1]>>

encodeBase62(n) ==
    IF n = <<>> THEN padStart(<<48>>, ID_LENGTH, 48)
    ELSE padStart(EncodeLoop(n), ID_LENGTH, 48)

\* mutation: a character without an entry is skipped instead of rejected
RECURSIVE DecodeLoop_SkipsInvalid(_, _)
DecodeLoop_SkipsInvalid(str, n) ==
    IF n = 0 THEN Return(<<>>)
    ELSE LET before == DecodeLoop_SkipsInvalid(str, n - 1)
         IN  IF str[n] \notin DOMAIN ALPHABET_INDEX THEN before
             ELSE Return(BigAdd(BigMulSmall(before.value, BASE),
                                BigFromNat(ALPHABET_INDEX[str[n]])))
\* the outcome of the loop over the first n characters of str: it throws at
\* the first character that has no entry in ALPHABET_INDEX
RECURSIVE DecodeLoop(_, _)
DecodeLoop(str, n) ==
    IF n = 0 THEN Return(<<>>)
    ELSE LET before == DecodeLoop(str, n - 1)
         IN  IF before.threw THEN before
             ELSE IF str[n] \notin DOMAIN ALPHABET_INDEX
             THEN Throw(INVALID_CHARACTER(str[n], n - 1))
             ELSE Return(BigAdd(BigMulSmall(before.value, BASE),
                                BigFromNat(ALPHABET_INDEX[str[n]])))

decodeBase62(str) == DecodeLoop(str, Len(str))

extractFieldsFromBigint(fullId) ==
    LET checksum16 == BigAnd(fullId, MASK_CHECKSUM)
        timestamp48 == BigShr(fullId, SHIFT_FOR_TIMESTAMP)
        entropy64 == BigAnd(BigShr(fullId, SHIFT_FOR_ENTROPY), MASK_ENTROPY)
        combined == bigintToBytes(timestamp48, 6) \o bigintToBytes(entropy64, 8)
    IN  [timestamp48 |-> timestamp48,
         entropy64 |-> entropy64,
         checksum16 |-> checksum16,
         computedChecksum16 |-> BigFromNat(crc16CCITT(combined))]

\* a Crypto object is [getRandomValues |-> <<hi, lo>>]: the two Uint32 values
\* its getRandomValues writes into a Uint32Array(2); an object without a
\* getRandomValues method counts as no object at all
\* opts: [nowMs, rng64, crypto], each optional; env: [dateNow, crypto],
\* what Date.now() returns and globalThis.crypto (optional)
\* mutation: a fallback to a source that is not secure instead of the throw
getCrypto_Fallback(opts, env) ==
    IF IsDefined(opts.crypto) THEN Return(Val(opts.crypto))
    ELSE IF IsDefined(env.crypto) THEN Return(Val(env.crypto))
    ELSE Return([getRandomValues |-> <<BigFromNat(7), BigFromNat(7)>>])

getCrypto(opts, env) ==
    IF IsDefined(opts.crypto) THEN Return(Val(opts.crypto))
    ELSE IF IsDefined(env.crypto) THEN Return(Val(env.crypto))
    ELSE Throw(CRYPTO_UNAVAILABLE)

\* the second half of generateSolidId: checksum, packing and encoding
assembleId(timestamp, entropy) ==
    LET combined == bigintToBytes(timestamp, 6) \o bigintToBytes(entropy, 8)
        crc == BigFromNat(crc16CCITT(combined))
        id == BigOr(BigOr(BigShl(timestamp, SHIFT_FOR_TIMESTAMP),
                          BigShl(entropy, SHIFT_FOR_ENTROPY)),
                    crc)
    IN  encodeBase62(id)

\* mutation: the crypto object is drawn from whenever there is one, and rng64
\* is only the fallback
generateSolidId_CryptoFirst(opts, env) ==
    LET cryptoImpl == getCrypto(opts, env)
        now == IF IsDefined(opts.nowMs) THEN Val(opts.nowMs) ELSE env.dateNow
    IN  IF cryptoImpl.threw THEN cryptoImpl
        ELSE IF BigLess(now, EPOCH_MS) THEN Throw(OUT_OF_RANGE)
        ELSE LET timeSinceEpoch == BigSub(now, EPOCH_MS)
             IN  IF BigLess(MAX_TIMESTAMP_MS_48, timeSinceEpoch) THEN Throw(OUT_OF_RANGE)
                 ELSE LET timestamp == BigAnd(timeSinceEpoch, TIMESTAMP_MASK)
                          randBuffer == cryptoImpl.value.getRandomValues
                          entropy == BigOr(BigShl(randBuffer[1], 32), randBuffer[2])
                      IN  Return(assembleId(timestamp, entropy))

generateSolidId(opts, env) ==
    LET cryptoImpl == getCrypto(opts, env)
        now == IF IsDefined(opts.nowMs) THEN Val(opts.nowMs) ELSE env.dateNow
    IN  IF cryptoImpl.threw THEN cryptoImpl
        \* timeSinceEpoch = now - EPOCH_MS is negative
        ELSE IF BigLess(now, EPOCH_MS) THEN Throw(OUT_OF_RANGE)
        ELSE LET timeSinceEpoch == BigSub(now, EPOCH_MS)
             IN  IF BigLess(MAX_TIMESTAMP_MS_48, timeSinceEpoch) THEN Throw(OUT_OF_RANGE)
                 ELSE LET timestamp == BigAnd(timeSinceEpoch, TIMESTAMP_MASK)
                          randBuffer == cryptoImpl.value.getRandomValues
                          entropy ==
                              IF IsDefined(opts.rng64)
                              THEN BigAnd(Val(opts.rng64), MASK_ENTROPY)
                              ELSE BigOr(BigShl(randBuffer[1], 32), randBuffer[2])
                      IN  Return(assembleId(timestamp, entropy))

\* mutation: the character class is written [0-9A-z], which lets the six
\* characters between 'Z' and 'a' through
FormatTest_WideRange(id) ==
    /\ Len(id) > 0
    /\ \A i \in 1..Len(id) :
          \/ id[i] \in 48..57
          \/ id[i] \in 65..122
\* /^[0-9A-Za-z]+$/.test(id)
FormatTest(id) ==
    /\ Len(id) > 0
    /\ \A i \in 1..Len(id) :
          \/ id[i] \in 48..57
          \/ id[i] \in 65..90
          \/ id[i] \in 97..122

\* mutation: the stored checksum is not compared with the computed one
parseDecoded_SkipsChecksum(id) ==
    LET fullId == decodeBase62(id)
    IN  IF fullId.threw
        THEN [id |-> id, valid |-> FALSE, status |-> "DECODE_ERROR",
              errorMessage |-> fullId.error]
        ELSE LET f == extractFieldsFromBigint(fullId.value)
             IN  [id |-> id, valid |-> TRUE, status |-> "OK",
                  timestampMs |-> BigAdd(f.timestamp48, EPOCH_MS),
                  timestamp48 |-> f.timestamp48,
                  entropy64 |-> f.entropy64,
                  checksum16 |-> f.checksum16,
                  computedChecksum16 |-> f.computedChecksum16]

\* mutation: timestampMs is filled in before the checksums are compared
parseDecoded_TimestampMsAlways(id) ==
    LET fullId == decodeBase62(id)
    IN  IF fullId.threw
        THEN [id |-> id, valid |-> FALSE, status |-> "DECODE_ERROR",
              errorMessage |-> fullId.error]
        ELSE LET f == extractFieldsFromBigint(fullId.value)
             IN  [id |-> id,
                  valid |-> f.checksum16 = f.computedChecksum16,
                  status |-> IF f.checksum16 = f.computedChecksum16
                             THEN "OK" ELSE "INVALID_CHECKSUM",
                  timestampMs |-> BigAdd(f.timestamp48, EPOCH_MS),
                  timestamp48 |-> f.timestamp48,
                  entropy64 |-> f.entropy64,
                  checksum16 |-> f.checksum16,
                  computedChecksum16 |-> f.computedChecksum16]
\* the try block of parseSolidId and its catch: steps 3 to 6
parseDecoded(id) ==
    LET fullId == decodeBase62(id)
    IN  IF fullId.threw
        THEN [id |-> id, valid |-> FALSE, status |-> "DECODE_ERROR",
              errorMessage |-> fullId.error]
        ELSE LET f == extractFieldsFromBigint(fullId.value)
             IN  IF f.checksum16 # f.computedChecksum16
                 THEN [id |-> id, valid |-> FALSE, status |-> "INVALID_CHECKSUM",
                       timestamp48 |-> f.timestamp48,
                       entropy64 |-> f.entropy64,
                       checksum16 |-> f.checksum16,
                       computedChecksum16 |-> f.computedChecksum16]
                 ELSE [id |-> id, valid |-> TRUE, status |-> "OK",
                       timestampMs |-> BigAdd(f.timestamp48, EPOCH_MS),
                       timestamp48 |-> f.timestamp48,
                       entropy64 |-> f.entropy64,
                       checksum16 |-> f.checksum16,
                       computedChecksum16 |-> f.computedChecksum16]

\* mutation: a string of 22 characters with a character outside the alphabet
\* makes the call throw
parseSolidId_Throws(id) ==
    LET base == [id |-> id, valid |-> FALSE, status |-> "INVALID_LENGTH"]
    IN  IF Len(id) # ID_LENGTH THEN base
        ELSE IF ~FormatTest(id) THEN Throw("Invalid SOLID ID")
        ELSE parseDecoded(id)

\* mutation: the format is checked before the length
parseSolidId_FormatFirst(id) ==
    LET base == [id |-> id, valid |-> FALSE, status |-> "INVALID_LENGTH"]
    IN  IF ~FormatTest(id) THEN [base EXCEPT !.status = "INVALID_FORMAT"]
        ELSE IF Len(id) # ID_LENGTH THEN base
        ELSE parseDecoded(id)

parseSolidId(id) ==
    LET base == [id |-> id, valid |-> FALSE, status |-> "INVALID_LENGTH"]
    IN  IF Len(id) # ID_LENGTH THEN base
        ELSE IF ~FormatTest(id) THEN [base EXCEPT !.status = "INVALID_FORMAT"]
        ELSE parseDecoded(id)

\* mutation: only the length and the characters are looked at
validateSolidId_FormatOnly(id) == Len(id) = ID_LENGTH /\ FormatTest(id)
validateSolidId(id) == parseSolidId(id).valid

\* 8.64e15, the largest time value of a Date
MAX_DATE_MS == BigMulSmall(BigMulSmall(BigFromNat(86400000), 10000), 10000)

\* new Date(ms) for an integral ms >= 0, as its time value: <<ms>>, or
\* <<>> (an invalid date) above the largest time value
NewDate(ms) == IF BigLess(MAX_DATE_MS, ms) THEN Undefined ELSE Some(ms)

INVALID_ID == "Invalid SOLID ID"

getTimestampFromSolidId(id) ==
    LET p == parseSolidId(id)
    IN  IF ~p.valid \/ "timestampMs" \notin DOMAIN p THEN Throw(INVALID_ID)
        ELSE Return(NewDate(p.timestampMs))

\* what a call reads from outside: the number of getRandomValues calls, of
\* rng64 calls and of Date.now() calls
NoEffects == [getRandomValues |-> 0, rng64 |-> 0, dateNow |-> 0]

\* mutation: one getRandomValues call for each half of the entropy
generateEffects_DrawPerHalf(opts, env) ==
    LET cryptoImpl == getCrypto(opts, env)
        clock == IF IsDefined(opts.nowMs) THEN 0 ELSE 1
        now == IF IsDefined(opts.nowMs) THEN Val(opts.nowMs) ELSE env.dateNow
    IN  IF cryptoImpl.threw THEN NoEffects
        ELSE IF BigLess(now, EPOCH_MS)
                \/ BigLess(MAX_TIMESTAMP_MS_48, BigSub(now, EPOCH_MS))
        THEN [NoEffects EXCEPT !.dateNow = clock]
        ELSE IF IsDefined(opts.rng64)
        THEN [getRandomValues |-> 0, rng64 |-> 1, dateNow |-> clock]
        ELSE [getRandomValues |-> 2, rng64 |-> 0, dateNow |-> clock]
generateEffects(opts, env) ==
    LET cryptoImpl == getCrypto(opts, env)
        clock == IF IsDefined(opts.nowMs) THEN 0 ELSE 1
        now == IF IsDefined(opts.nowMs) THEN Val(opts.nowMs) ELSE env.dateNow
    IN  IF cryptoImpl.threw THEN NoEffects
        ELSE IF BigLess(now, EPOCH_MS)
                \/ BigLess(MAX_TIMESTAMP_MS_48, BigSub(now, EPOCH_MS))
        THEN [NoEffects EXCEPT !.dateNow = clock]
        ELSE IF IsDefined(opts.rng64)
        THEN [getRandomValues |-> 0, rng64 |-> 1, dateNow |-> clock]
        ELSE [getRandomValues |-> 1, rng64 |-> 0, dateNow |-> clock]

\* parseSolidId, validateSolidId, getTimestampFromSolidId and the codec take a
\* string or a bigint and call nothing outside the module
pureEffects == NoEffects

\* A call run in steps, one step per use of a module-level table. A task is
\* [kind, arg, pc, local, out, interleaved]: local holds the values the call
\* keeps between steps, out the outcome once pc is "done".

\* generateSolidId up to the entropy: the sources, the clock and the range check
generateInputs(opts, env) ==
    LET cryptoImpl == getCrypto(opts, env)
        now == IF IsDefined(opts.nowMs) THEN Val(opts.nowMs) ELSE env.dateNow
    IN  IF cryptoImpl.threw THEN cryptoImpl
        ELSE IF BigLess(now, EPOCH_MS) THEN Throw(OUT_OF_RANGE)
        ELSE LET timeSinceEpoch == BigSub(now, EPOCH_MS)
             IN  IF BigLess(MAX_TIMESTAMP_MS_48, timeSinceEpoch) THEN Throw(OUT_OF_RANGE)
                 ELSE LET randBuffer == cryptoImpl.value.getRandomValues
                      IN  Return([timestamp |-> BigAnd(timeSinceEpoch, TIMESTAMP_MASK),
                                  entropy |->
                                      IF IsDefined(opts.rng64)
                                      THEN BigAnd(Val(opts.rng64), MASK_ENTROPY)
                                      ELSE BigOr(BigShl(randBuffer[1], 32), randBuffer[2])])

generateStep(t) ==
    IF t.pc = "start"
    THEN LET in == generateInputs(t.arg.options, t.arg.env)
         IN  IF in.threw THEN [t EXCEPT !.pc = "done", !.out = Some(in)]
             ELSE [t EXCEPT !.pc = "checksum", !.local = in.value]
    ELSE IF t.pc = "checksum"
    THEN LET combined == bigintToBytes(t.local.timestamp, 6)
                             \o bigintToBytes(t.local.entropy, 8)
         IN  [t EXCEPT !.pc = "encode",
                       !.local = [timestamp |-> t.local.timestamp,
                                  entropy |-> t.local.entropy,
                                  crc |-> BigFromNat(crc16CCITT(combined))]]
    ELSE LET id == BigOr(BigOr(BigShl(t.local.timestamp, SHIFT_FOR_TIMESTAMP),
                               BigShl(t.local.entropy, SHIFT_FOR_ENTROPY)),
                         t.local.crc)
         IN  [t EXCEPT !.pc = "done", !.out = Some(Return(encodeBase62(id)))]

parseStep(t) ==
    LET base == [id |-> t.arg, valid |-> FALSE, status |-> "INVALID_LENGTH"]
    IN  IF t.pc = "start"
        THEN IF Len(t.arg) # ID_LENGTH THEN [t EXCEPT !.pc = "done", !.out = Some(base)]
             ELSE IF ~FormatTest(t.arg)
             THEN [t EXCEPT !.pc = "done",
                            !.out = Some([base EXCEPT !.status = "INVALID_FORMAT"])]
             ELSE [t EXCEPT !.pc = "decode"]
        ELSE IF t.pc = "decode"
        THEN LET fullId == decodeBase62(t.arg)
             IN  IF fullId.threw
                 THEN [t EXCEPT !.pc = "done",
                                !.out = Some([id |-> t.arg, valid |-> FALSE,
                                              status |-> "DECODE_ERROR",
                                              errorMessage |-> fullId.error])]
                 ELSE [t EXCEPT !.pc = "checksum", !.local = fullId.value]
        ELSE LET f == extractFieldsFromBigint(t.local)
             IN  [t EXCEPT !.pc = "done",
                           !.out = Some(
                               IF f.checksum16 # f.computedChecksum16
                               THEN [id |-> t.arg, valid |-> FALSE,
                                     status |-> "INVALID_CHECKSUM",
                                     timestamp48 |-> f.timestamp48,
                                     entropy64 |-> f.entropy64,
                                     checksum16 |-> f.checksum16,
                                     computedChecksum16 |-> f.computedChecksum16]
                               ELSE [id |-> t.arg, valid |-> TRUE, status |-> "OK",
                                     timestampMs |-> BigAdd(f.timestamp48, EPOCH_MS),
                                     timestamp48 |-> f.timestamp48,
                                     entropy64 |-> f.entropy64,
                                     checksum16 |-> f.checksum16,
                                     computedChecksum16 |-> f.computedChecksum16])]
-----------------------------------------------------------------------------
(* Inputs *)

MaxTick == 1          \* clock values 0..MaxTick ms after the epoch
MaxSeed == 1          \* entropy values 0..MaxSeed
MaxReplacement == 8   \* replacement characters '0'..'0' + MaxReplacement
MaxBytes == 16        \* codec arguments of up to MaxBytes bytes

\* 2^48 and 2^64
Window == BigShl(One, TIMESTAMP_BITS)
TwoTo64 == BigShl(One, ENTROPY_BITS)

InRangeTimes ==
    {BigAdd(EPOCH_MS, BigFromNat(k)) : k \in 0..MaxTick}
        \cup {BigAdd(EPOCH_MS, BigSub(Window, One))}

Times == InRangeTimes \cup {BigSub(EPOCH_MS, One), BigAdd(EPOCH_MS, Window)}

\* what an rng64 may return: small values, 2^64 - 1, and a value of 65 bits
Entropies ==
    {BigFromNat(k) : k \in 0..MaxSeed}
        \cup {MASK_ENTROPY, BigAdd(TwoTo64, BigFromNat(MaxSeed))}

CryptoA == [getRandomValues |-> <<BigFromNat(0), BigFromNat(MaxSeed)>>]
CryptoB == [getRandomValues |-> <<BigSub(BigShl(One, 32), One), BigSub(BigShl(One, 32), One)>>]

\* calls with nowMs and rng64 given, in an environment with a global crypto
OverrideCalls ==
    {[options |-> [nowMs |-> Some(t), rng64 |-> Some(e), crypto |-> Undefined],
      env |-> [dateNow |-> EPOCH_MS, crypto |-> Some(CryptoA)]] :
        t \in Times, e \in Entropies}

\* calls with no crypto object anywhere, with and without rng64
NoCryptoCalls ==
    {[options |-> [nowMs |-> Some(t), rng64 |-> r, crypto |-> Undefined],
      env |-> [dateNow |-> EPOCH_MS, crypto |-> Undefined]] :
        t \in {EPOCH_MS, BigAdd(EPOCH_MS, Window)},
        r \in {Undefined, Some(BigFromNat(0))}}

\* calls that read the clock and draw from a crypto object
CryptoCalls ==
    {[options |-> [nowMs |-> Undefined, rng64 |-> Undefined, crypto |-> c.o],
      env |-> [dateNow |-> t, crypto |-> c.g]] :
        t \in {BigAdd(EPOCH_MS, One), BigSub(EPOCH_MS, One)},
        c \in {[o |-> Undefined, g |-> Some(CryptoA)],
               [o |-> Some(CryptoB), g |-> Undefined],
               [o |-> Some(CryptoB), g |-> Some(CryptoA)]}}

GenerateCalls == OverrideCalls \cup NoCryptoCalls \cup CryptoCalls

\* calls with the same nowMs and rng64 as calls above, made at another time
\* and with other crypto objects: the clock is before the epoch, after the
\* 48-bit window or one millisecond into it, and the crypto object is a
\* different global one, one passed in the options, or both
VariedOverrideCalls ==
    {[options |-> [nowMs |-> Some(t), rng64 |-> Some(BigFromNat(MaxSeed)),
                   crypto |-> v.o],
      env |-> [dateNow |-> v.now, crypto |-> v.g]] :
        t \in {EPOCH_MS, BigAdd(EPOCH_MS, BigSub(Window, One))},
        v \in {[now |-> BigSub(EPOCH_MS, One), o |-> Undefined, g |-> Some(CryptoB)],
               [now |-> BigAdd(EPOCH_MS, Window), o |-> Some(CryptoB), g |-> Undefined],
               [now |-> BigAdd(EPOCH_MS, One), o |-> Some(CryptoB), g |-> Some(CryptoA)]}}

Repeat(c, n) == [i \in 1..n |-> c]

\* '7n42DGM5Tflk9n8mt7Fste': the 22 characters of 2^128 + 0xA96A, where
\* 0xA96A is the checksum of timestamp 0 and entropy 0
BeyondRangeId ==
    <<55, 110, 52, 50, 68, 71, 77, 53, 84, 102, 108, 107, 57, 110, 56, 109,
      116, 55, 70, 115, 116, 101>>

\* '', 21 and 23 characters, 21 and 22 characters outside the alphabet, 22
\* alphabet characters, and a string that stands for more than 128 bits
FixedStrings ==
    {<<>>, Repeat(65, 21), Repeat(65, 23), Repeat(33, 21), Repeat(33, 22),
     Repeat(65, 22), Repeat(122, 22), BeyondRangeId}

\* digits, letters, and the characters next to the three ranges of the alphabet
ReplacementChars ==
    {48 + k : k \in 0..MaxReplacement}
        \cup {65, 90, 97, 122} \cup {33, 47, 58, 64, 91, 96, 123, 233}

Replace(s, pos, c) == [s EXCEPT ![pos] = c]

Mutations(s) ==
    {Replace(s, pos, c) : pos \in 1..Len(s), c \in ReplacementChars} \ {s}

\* what parseSolidId is called with: fixed strings, the identifier the last
\* generateSolidId call returned, and that identifier with one character changed
ParseInputs ==
    FixedStrings
        \cup (IF IsDefined(result) /\ ~Val(result).threw
              THEN {Val(result).value} \cup Mutations(Val(result).value)
              ELSE {})

CodecValues ==
    {BigFromNat(k) : k \in {0, 1, 61, 62, 63, 3843, 3844}}
        \cup {BigSub(BigShl(One, 8 * n), One) : n \in 1..MaxBytes}
        \cup {BigShl(One, 8 * n) : n \in 1..(MaxBytes - 1)}

DecodeInputs ==
    {<<>>, <<48>>, <<122>>, Repeat(33, 22), <<65, 33>>, Repeat(122, 22), Repeat(122, 23),
     <<33>>, <<65, 66, 233>>, Repeat(65, 12) \o <<33, 65>>}
        \cup (IF IsDefined(encoded) THEN {Val(encoded)} ELSE {})

MaxCrcLen == 3        \* crc16CCITT arguments of up to MaxCrcLen bytes, of each content

CrcBytes == {0, 1, 49, 128, 255}

RECURSIVE BytesOfLength(_)
BytesOfLength(n) ==
    IF n = 0 THEN {<<>>}
    ELSE {Append(s, b) : s \in BytesOfLength(n - 1), b \in CrcBytes}

\* what crc16CCITT is called with directly: every short sequence of the bytes
\* above, '123456789', and the 14 bytes of timestamp 0 and entropy 0
CrcInputs ==
    UNION {BytesOfLength(n) : n \in 0..MaxCrcLen}
        \cup {<<49, 50, 51, 52, 53, 54, 55, 56, 57>>, Repeat(0, 14)}
MaxTasks == 2         \* calls in progress at the same time

\* the call with both overrides that is run as a task
TaskOverrideCalls ==
    {c \in OverrideCalls :
        c.options.nowMs = Some(EPOCH_MS) /\ c.options.rng64 = Some(MASK_ENTROPY)}

\* the calls run as tasks: that one, and one that reads the clock and draws
\* from a crypto object
TaskGenerateCalls ==
    TaskOverrideCalls
        \cup {c \in CryptoCalls :
                /\ c.env.dateNow = BigAdd(EPOCH_MS, One)
                /\ IsDefined(c.options.crypto)
                /\ ~IsDefined(c.env.crypto)}

\* the strings parsed by tasks: 22 'z', 22 '!', and the identifier that the
\* call with both overrides returns
TaskParseInputs ==
    {Repeat(122, 22), Repeat(33, 22)}
        \cup {generateSolidId(c.options, c.env).value : c \in TaskOverrideCalls}

-----------------------------------------------------------------------------
(* State machine *)

Init ==
    /\ CRC_TABLE = CrcTableInit
    /\ ALPHABET_INDEX = AlphabetIndexInit
    /\ call = Undefined
    /\ result = Undefined
    /\ earlierCall = Undefined
    /\ earlierResult = Undefined
    /\ text = Undefined
    /\ parsed = Undefined
    /\ number = Undefined
    /\ encoded = Undefined
    /\ decInput = Undefined
    /\ decoded = Undefined
    /\ validated = Undefined
    /\ dated = Undefined
    /\ effects = Undefined
    /\ crcCall = Undefined
    /\ tasks = Undefined

\* one generateSolidId call; the call it replaces may be kept as the earlier one
Generate(c) ==
    /\ call' = Some(c)
    /\ result' = Some(generateSolidId(c.options, c.env))
    /\ effects' = Some([function |-> "generateSolidId",
                        reads |-> generateEffects(c.options, c.env)])
    /\ \/ earlierCall' = call /\ earlierResult' = result
       \/ earlierCall' = earlierCall /\ earlierResult' = earlierResult
    /\ UNCHANGED <<CRC_TABLE, ALPHABET_INDEX, text, parsed, number, encoded,
                   decInput, decoded, validated, dated, crcCall, tasks>>

Parse(s) ==
    /\ text' = Some(s)
    /\ parsed' = Some(parseSolidId(s))
    /\ effects' = Some([function |-> "parseSolidId", reads |-> pureEffects])
    /\ UNCHANGED <<CRC_TABLE, ALPHABET_INDEX, call, result, earlierCall,
                   earlierResult, number, encoded, decInput, decoded,
                   validated, dated, crcCall, tasks>>

Validate(s) ==
    /\ validated' = Some([id |-> s, value |-> validateSolidId(s)])
    /\ effects' = Some([function |-> "validateSolidId", reads |-> pureEffects])
    /\ UNCHANGED <<CRC_TABLE, ALPHABET_INDEX, call, result, earlierCall,
                   earlierResult, text, parsed, number, encoded, decInput, decoded,
                   dated, crcCall, tasks>>

GetTimestamp(s) ==
    /\ dated' = Some([id |-> s, outcome |-> getTimestampFromSolidId(s)])
    /\ effects' = Some([function |-> "getTimestampFromSolidId", reads |-> pureEffects])
    /\ UNCHANGED <<CRC_TABLE, ALPHABET_INDEX, call, result, earlierCall,
                   earlierResult, text, parsed, number, encoded, decInput, decoded,
                   validated, crcCall, tasks>>

Encode(v) ==
    /\ number' = Some(v)
    /\ encoded' = Some(encodeBase62(v))
    /\ effects' = Some([function |-> "encodeBase62", reads |-> pureEffects])
    /\ UNCHANGED <<CRC_TABLE, ALPHABET_INDEX, call, result, earlierCall,
                   earlierResult, text, parsed, decInput, decoded,
                   validated, dated, crcCall, tasks>>

Decode(s) ==
    /\ decInput' = Some(s)
    /\ decoded' = Some(decodeBase62(s))
    /\ effects' = Some([function |-> "decodeBase62", reads |-> pureEffects])
    /\ UNCHANGED <<CRC_TABLE, ALPHABET_INDEX, call, result, earlierCall,
                   earlierResult, text, parsed, number, encoded,
                   validated, dated, crcCall, tasks>>

\* a direct call of the exported crc16CCITT
Crc(input) ==
    /\ crcCall' = Some([input |-> input, value |-> crc16CCITT(input)])
    /\ effects' = Some([function |-> "crc16CCITT", reads |-> pureEffects])
    /\ UNCHANGED <<CRC_TABLE, ALPHABET_INDEX, call, result, earlierCall,
                   earlierResult, text, parsed, number, encoded, decInput, decoded,
                   validated, dated, tasks>>

\* a call begins; its first step is still to come
StartTask(kind, arg) ==
    /\ Len(tasks) < MaxTasks
    /\ tasks' = Append(tasks, [kind |-> kind, arg |-> arg, pc |-> "start",
                               local |-> <<>>, out |-> Undefined,
                               interleaved |-> FALSE])
    /\ UNCHANGED <<CRC_TABLE, ALPHABET_INDEX, call, result, earlierCall,
                   earlierResult, text, parsed, number, encoded, decInput, decoded,
                   validated, dated, effects, crcCall>>

\* mutation: the checksum steps keep their running value in the first entry
\* of the table
TaskStep_ScratchInTable(i) ==
    /\ tasks[i].pc # "done"
    /\ LET t == [tasks[i] EXCEPT !.interleaved =
                    @ \/ \E j \in 1..Len(tasks) :
                            j # i /\ tasks[j].pc \notin {"start", "done"}]
       IN  tasks' = [tasks EXCEPT ![i] = IF t.kind = "generate" THEN generateStep(t)
                                          ELSE parseStep(t)]
    /\ CRC_TABLE' = IF tasks[i].pc = "checksum"
                    THEN [CRC_TABLE EXCEPT ![0] = 65535]
                    ELSE CRC_TABLE
    /\ UNCHANGED <<ALPHABET_INDEX, call, result, earlierCall,
                   earlierResult, text, parsed, number, encoded, decInput, decoded,
                   validated, dated, effects, crcCall>>

\* one step of a call in progress, between any two steps of the others; the
\* step is marked as interleaved when another call is between its own steps
TaskStep(i) ==
    /\ tasks[i].pc # "done"
    /\ LET t == [tasks[i] EXCEPT !.interleaved =
                    @ \/ \E j \in 1..Len(tasks) :
                            j # i /\ tasks[j].pc \notin {"start", "done"}]
       IN  tasks' = [tasks EXCEPT ![i] = IF t.kind = "generate" THEN generateStep(t)
                                          ELSE parseStep(t)]
    /\ UNCHANGED <<CRC_TABLE, ALPHABET_INDEX, call, result, earlierCall,
                   earlierResult, text, parsed, number, encoded, decInput, decoded,
                   validated, dated, effects, crcCall>>
\* generateSolidId calls, one after another, the overrides also repeated under
\* another clock and other crypto objects
NextGen == \E c \in GenerateCalls \cup VariedOverrideCalls : Generate(c)

SpecGen == Init /\ [][NextGen]_vars

\* parseSolidId called once, on a fixed string or after one generateSolidId call
NextParse ==
    \/ call = Undefined /\ text = Undefined /\ \E c \in GenerateCalls : Generate(c)
    \/ text = Undefined /\ \E s \in ParseInputs : Parse(s)

SpecParse == Init /\ [][NextParse]_vars

\* the codec alone: decodeBase62 called once, on a fixed string or on what one
\* encodeBase62 call returned
NextCodec ==
    \/ number = Undefined /\ decInput = Undefined /\ \E v \in CodecValues : Encode(v)
    \/ decInput = Undefined /\ \E s \in DecodeInputs : Decode(s)

SpecCodec == Init /\ [][NextCodec]_vars

\* the three functions that take an identifier, called on the same string:
\* parseSolidId first, then validateSolidId and getTimestampFromSolidId
NextApi ==
    \/ call = Undefined /\ text = Undefined /\ \E c \in GenerateCalls : Generate(c)
    \/ text = Undefined /\ \E s \in ParseInputs : Parse(s)
    \/ IsDefined(text) /\ validated = Undefined /\ Validate(Val(text))
    \/ IsDefined(text) /\ dated = Undefined /\ GetTimestamp(Val(text))

SpecApi == Init /\ [][NextApi]_vars

\* crc16CCITT called on its own
NextCrc == \E input \in CrcInputs : Crc(input)

SpecCrc == Init /\ [][NextCrc]_vars
\* generateSolidId and parseSolidId calls in progress together, their steps
\* in any order
NextTasks ==
    \/ \E c \in TaskGenerateCalls : StartTask("generate", c)
    \/ \E s \in TaskParseInputs : StartTask("parse", s)
    \/ \E i \in 1..Len(tasks) : TaskStep(i)

SpecTasks == Init /\ [][NextTasks]_vars
-----------------------------------------------------------------------------
(* Vocabulary of the properties *)

\* the clock value a call works with
NowOf(c) == IF IsDefined(c.options.nowMs) THEN Val(c.options.nowMs) ELSE c.env.dateNow

\* 0 <= t - EPOCH_MS <= 2^48 - 1
InWindow(t) ==
    /\ ~BigLess(t, EPOCH_MS)
    /\ ~BigLess(BigAdd(EPOCH_MS, BigSub(Window, One)), t)

\* a secure random source is configured or reachable
HasCrypto(c) == IsDefined(c.options.crypto) \/ IsDefined(c.env.crypto)

\* e mod 2^64: the low eight bytes
ModTwoTo64(e) == Norm(SubSeq(e, 1, IF Len(e) < 8 THEN Len(e) ELSE 8))

\* the entropy a call works with
EntropyOf(c) ==
    IF IsDefined(c.options.rng64) THEN ModTwoTo64(Val(c.options.rng64))
    ELSE LET b == (IF IsDefined(c.options.crypto) THEN Val(c.options.crypto)
                   ELSE Val(c.env.crypto)).getRandomValues
         IN  BigAdd(BigShl(b[1], 32), b[2])

\* [0-9A-Za-z]
IsAlnum(ch) == \E i \in 1..Len(ALPHABET) : ALPHABET[i] = ch

\* a < b as strings: comparison of code units, a proper prefix is smaller
RECURSIVE StrLessFrom(_, _, _)
StrLessFrom(a, b, i) ==
    IF i > Len(a) THEN i <= Len(b)
    ELSE IF i > Len(b) THEN FALSE
    ELSE IF a[i] # b[i] THEN a[i] < b[i]
    ELSE StrLessFrom(a, b, i + 1)

StrLess(a, b) == StrLessFrom(a, b, 1)

Returned(r) == IsDefined(r) /\ ~Val(r).threw

\* the last parseSolidId call was given the identifier the generateSolidId call returned
ParsedGenerated ==
    /\ Returned(result)
    /\ IsDefined(text)
    /\ Val(text) = Val(result).value

\* the positions where the parsed string differs from the generated identifier
ChangedPositions ==
    {i \in 1..Len(Val(text)) : Val(text)[i] # Val(result).value[i]}

\* the last parseSolidId call was given the generated identifier with exactly
\* one character replaced
ParsedMutation ==
    /\ Returned(result)
    /\ IsDefined(text)
    /\ Len(Val(text)) = Len(Val(result).value)
    /\ Cardinality(ChangedPositions) = 1

ReplacementChar == Val(text)[CHOOSE i \in ChangedPositions : TRUE]

-----------------------------------------------------------------------------
(* Properties *)

\* C1: parsing a generated identifier gives back what it was generated from.
\* With a random source at hand, an in-range nowMs and an rng64 value e, the
\* call returns; and the parse of a returned identifier is valid with status
\* OK, timestamp48 = nowMs - EPOCH_MS, timestampMs = nowMs, entropy64 =
\* e mod 2^64 and checksum16 = computedChecksum16 = the CRC of the 14 bytes.
C1_ParseOfGenerated ==
    /\ IsDefined(call) =>
          LET c == Val(call)
          IN  InWindow(NowOf(c)) /\ HasCrypto(c) => ~Val(result).threw
    /\ ParsedGenerated =>
          LET c == Val(call)
              r == Val(parsed)
              crc == BigFromNat(crc16CCITT(bigintToBytes(r.timestamp48, 6)
                                           \o bigintToBytes(r.entropy64, 8)))
          IN  /\ r.valid = TRUE
              /\ r.status = "OK"
              /\ r.timestamp48 = BigSub(NowOf(c), EPOCH_MS)
              /\ r.timestampMs = NowOf(c)
              /\ r.entropy64 = EntropyOf(c)
              /\ r.checksum16 = r.computedChecksum16
              /\ r.checksum16 = crc

\* C1 witness: an identifier generated at the last in-range millisecond from
\* an rng64 value above 2^64 has been parsed
C1_Witness ==
    /\ ParsedGenerated
    /\ IsDefined(Val(call).options.rng64)
    /\ ~BigLess(Val(Val(call).options.rng64), TwoTo64)
    /\ NowOf(Val(call)) = BigAdd(EPOCH_MS, BigSub(Window, One))
    /\ Val(parsed).status = "OK"

\* 2^128
TwoTo128 == BigShl(One, 128)

\* C2: decodeBase62(encodeBase62(v)) = v for every 0 <= v < 2^128.
C2_RoundTrip ==
    /\ IsDefined(number)
    /\ IsDefined(decInput)
    /\ Val(decInput) = Val(encoded)
    /\ BigLess(Val(number), TwoTo128)
    => /\ ~Val(decoded).threw
       /\ Val(decoded).value = Val(number)

\* C2 witness: 2^128 - 1 has been encoded and the string decoded
C2_Witness ==
    /\ IsDefined(number)
    /\ Val(number) = BigSub(TwoTo128, One)
    /\ IsDefined(decInput)
    /\ Val(decInput) = Val(encoded)

\* C3: of two returned identifiers, the one generated at the smaller in-range
\* time is the smaller string, whatever the two entropy values are.
C3_Sortable ==
    Returned(result) /\ Returned(earlierResult) =>
        LET t0 == NowOf(Val(earlierCall))
            t1 == NowOf(Val(call))
        IN  /\ BigLess(t0, t1) => StrLess(Val(earlierResult).value, Val(result).value)
            /\ BigLess(t1, t0) => StrLess(Val(result).value, Val(earlierResult).value)

\* C3 witness: an identifier with entropy 2^64 - 1 and, one millisecond later,
\* an identifier with entropy 0
C3_Witness ==
    /\ Returned(result)
    /\ Returned(earlierResult)
    /\ NowOf(Val(call)) = BigAdd(NowOf(Val(earlierCall)), One)
    /\ IsDefined(Val(earlierCall).options.rng64)
    /\ IsDefined(Val(call).options.rng64)
    /\ Val(Val(earlierCall).options.rng64) = MASK_ENTROPY
    /\ Val(Val(call).options.rng64) = <<>>

\* the timestamp and entropy the generated identifier carries
GeneratedTimestamp == BigSub(NowOf(Val(call)), EPOCH_MS)
GeneratedEntropy == EntropyOf(Val(call))

\* C4, as stated: a generated identifier with one character replaced is never
\* valid; its status is INVALID_CHECKSUM when the replacement is in
\* [0-9A-Za-z] and INVALID_FORMAT otherwise.
C4_EveryMutationDetected ==
    ParsedMutation =>
        /\ Val(parsed).valid = FALSE
        /\ Val(parsed).status =
              (IF IsAlnum(ReplacementChar) THEN "INVALID_CHECKSUM" ELSE "INVALID_FORMAT")

\* C4, amended: a generated identifier with one character replaced has status
\* INVALID_FORMAT when the replacement is outside [0-9A-Za-z]; otherwise its
\* status is INVALID_CHECKSUM or OK, valid exactly when OK, and it is
\* INVALID_CHECKSUM whenever the replacement leaves the decoded timestamp48
\* and entropy64 as generated (an OK mutation carries another timestamp or
\* entropy, with the checksum that fits them).
C4_MutationDetectedUnlessChecksumFits ==
    ParsedMutation =>
        LET r == Val(parsed)
        IN  /\ ~IsAlnum(ReplacementChar) => r.status = "INVALID_FORMAT" /\ r.valid = FALSE
            /\ IsAlnum(ReplacementChar) =>
                  /\ r.status \in {"INVALID_CHECKSUM", "OK"}
                  /\ r.valid = (r.status = "OK")
                  /\ r.status = "OK" => r.checksum16 = r.computedChecksum16
                  /\ r.timestamp48 = GeneratedTimestamp /\ r.entropy64 = GeneratedEntropy
                        => r.status = "INVALID_CHECKSUM"

\* C4 witness: a generated identifier with one character replaced has been
\* parsed and found OK, with another entropy than the one generated
C4_Witness ==
    /\ ParsedMutation
    /\ IsAlnum(ReplacementChar)
    /\ Val(parsed).status = "OK"
    /\ Val(parsed).valid = TRUE
    /\ Val(parsed).entropy64 # GeneratedEntropy

\* C5: with a random source available, generateSolidId throws the
\* out-of-range error exactly when nowMs - EPOCH_MS < 0 or > 2^48 - 1, and
\* returns an identifier otherwise; it returns at EPOCH_MS + 2^48 - 1 and
\* throws at EPOCH_MS + 2^48.
C5_OutOfRangeExactly ==
    IsDefined(call) /\ HasCrypto(Val(call)) =>
        LET t == NowOf(Val(call))
            r == Val(result)
        IN  /\ r.threw <=> ~InWindow(t)
            /\ r.threw => r.error = OUT_OF_RANGE
            /\ t = BigAdd(EPOCH_MS, BigSub(Window, One)) => ~r.threw
            /\ t = BigAdd(EPOCH_MS, Window) => r.threw

\* C5 witness: a call at EPOCH_MS + 2^48 with a random source has thrown
C5_Witness ==
    /\ IsDefined(call)
    /\ HasCrypto(Val(call))
    /\ NowOf(Val(call)) = BigAdd(EPOCH_MS, Window)
    /\ Val(result).threw
    /\ Val(result).error = OUT_OF_RANGE

ParseStatuses == {"OK", "INVALID_LENGTH", "INVALID_FORMAT", "DECODE_ERROR", "INVALID_CHECKSUM"}

\* C6: parseSolidId returns an object for every string and never throws; the
\* status is one of the five, id echoes the argument, and valid holds exactly
\* when the status is OK.
C6_ParseTotal ==
    IsDefined(parsed) =>
        LET r == Val(parsed)
        IN  /\ "threw" \notin DOMAIN r
            /\ {"id", "valid", "status"} \subseteq DOMAIN r
            /\ r.status \in ParseStatuses
            /\ r.id = Val(text)
            /\ r.valid = (r.status = "OK")

\* C6 witness: a string of 22 characters, one of them outside the alphabet,
\* has been parsed
C6_Witness ==
    /\ ParsedMutation
    /\ ~IsAlnum(ReplacementChar)
    /\ Val(parsed).id = Val(text)

\* C7: the checks come in a fixed order.  A length other than 22 gives
\* INVALID_LENGTH whatever the characters; length 22 with a character outside
\* [0-9A-Za-z] gives INVALID_FORMAT; OK and INVALID_CHECKSUM are for strings
\* of 22 characters of the alphabet only.
C7_CheckOrder ==
    IsDefined(parsed) =>
        LET t == Val(text)
            r == Val(parsed)
            allAlnum == \A i \in 1..Len(t) : IsAlnum(t[i])
        IN  /\ Len(t) # 22 => r.status = "INVALID_LENGTH" /\ r.valid = FALSE
            /\ Len(t) = 22 /\ ~allAlnum => r.status = "INVALID_FORMAT"
            /\ r.status \in {"OK", "INVALID_CHECKSUM"} => Len(t) = 22 /\ allAlnum

\* C7 witness: 21 characters outside the alphabet have been parsed
C7_Witness ==
    /\ IsDefined(parsed)
    /\ Val(text) = Repeat(33, 21)
    /\ Val(parsed).status = "INVALID_LENGTH"

\* C8, as stated: with an rng64 override and an in-range nowMs,
\* generateSolidId returns an identifier even where no secure random source
\* is configured or reachable.
C8_OverrideNeedsNoCrypto ==
    /\ IsDefined(call)
    /\ IsDefined(Val(call).options.rng64)
    /\ InWindow(NowOf(Val(call)))
    => ~Val(result).threw

\* C9: with no rng64 override and no secure random source, generateSolidId
\* throws the source-unavailable error and returns no identifier.
C9_NoSourceThrows ==
    /\ IsDefined(call)
    /\ ~IsDefined(Val(call).options.rng64)
    /\ ~HasCrypto(Val(call))
    => /\ Val(result).threw
       /\ Val(result).error = CRYPTO_UNAVAILABLE

\* C9 witness: such a call, at an in-range time, has been made
C9_Witness ==
    /\ IsDefined(call)
    /\ ~IsDefined(Val(call).options.rng64)
    /\ ~HasCrypto(Val(call))
    /\ InWindow(NowOf(Val(call)))

\* the two calls were given the same nowMs and rng64 values
SameTimeAndEntropy ==
    /\ IsDefined(call)
    /\ IsDefined(earlierCall)
    /\ IsDefined(Val(call).options.nowMs)
    /\ IsDefined(Val(call).options.rng64)
    /\ Val(call).options.nowMs = Val(earlierCall).options.nowMs
    /\ Val(call).options.rng64 = Val(earlierCall).options.rng64

\* C10: two calls with the same nowMs and the same rng64 value return the
\* same string, whatever calls came before or between them and whatever the
\* clock shows and the crypto objects hold at either call; where a random
\* source is as reachable for one as for the other, they have the same outcome.
C10_Deterministic ==
    SameTimeAndEntropy =>
        /\ Returned(result) /\ Returned(earlierResult)
              => Val(result).value = Val(earlierResult).value
        /\ HasCrypto(Val(call)) = HasCrypto(Val(earlierCall)) => result = earlierResult

\* C10 witness: two calls with the same nowMs and rng64 have both returned,
\* one made with the clock at the epoch and one global crypto object, the other
\* with the clock outside the 48-bit window and another crypto object, passed
\* in its options
C10_Witness ==
    /\ SameTimeAndEntropy
    /\ Returned(result)
    /\ Returned(earlierResult)
    /\ Val(earlierCall).env.dateNow = EPOCH_MS
    /\ Val(earlierCall).env.crypto = Some(CryptoA)
    /\ Val(call).env.dateNow = BigAdd(EPOCH_MS, Window)
    /\ Val(call).options.crypto = Some(CryptoB)
    /\ Val(call).env.crypto = Undefined

-----------------------------------------------------------------------------
\* C11: every string generateSolidId returns has exactly 22 characters, all of
\* them in 0-9A-Za-z, and stands for a value below 2^128: the packed value of
\* an in-range timestamp and a 64-bit entropy, left-padded with '0'.
C11_FixedLengthAlphabet ==
    Returned(result) =>
        LET id == Val(result).value
        IN  /\ Len(id) = ID_LENGTH
            /\ \A i \in 1..Len(id) : IsAlnum(id[i])
            /\ ~decodeBase62(id).threw
            /\ BigLess(decodeBase62(id).value, TwoTo128)

\* C11 witness: the smallest packed value (timestamp 0, entropy 0) has been
\* returned, as a string that starts with padding
C11_Witness ==
    /\ Returned(result)
    /\ GeneratedTimestamp = <<>>
    /\ GeneratedEntropy = <<>>
    /\ Val(result).value[1] = 48

-----------------------------------------------------------------------------
\* C12: validateSolidId(s) is parseSolidId(s).valid, and
\* getTimestampFromSolidId(s) throws exactly when parseSolidId(s).valid is
\* false and otherwise returns the date whose millisecond value is
\* parseSolidId(s).timestampMs.
C12_ValidateAndTimestampFollowParse ==
    /\ IsDefined(validated) =>
          /\ text = Some(Val(validated).id)
          /\ Val(validated).value = Val(parsed).valid
    /\ IsDefined(dated) =>
          /\ text = Some(Val(dated).id)
          /\ Val(dated).outcome.threw = ~Val(parsed).valid
          /\ ~Val(dated).outcome.threw =>
                Val(dated).outcome.value = Some(Val(parsed).timestampMs)

\* C12 witness: a generated identifier has been parsed, validated (true) and
\* dated (the time it was generated at)
C12_Witness ==
    /\ ParsedGenerated
    /\ IsDefined(validated) /\ Val(validated).value
    /\ IsDefined(dated) /\ ~Val(dated).outcome.threw
    /\ Val(dated).outcome.value = Some(NowOf(Val(call)))

-----------------------------------------------------------------------------
\* the position of a character in the alphabet, counted from 0
DigitOf(ch) == CHOOSE d \in 0..(BASE - 1) : ALPHABET[d + 1] = ch

\* v is the number that the first n characters of s stand for in base 62:
\* its remainders by 62 are the digits of s from the right, and nothing is left
RECURSIVE HasDigits(_, _, _)
HasDigits(v, s, n) ==
    IF n = 0 THEN v = <<>>
    ELSE /\ BigModSmall(v, BASE) = DigitOf(s[n])
         /\ HasDigits(BigDivSmall(v, BASE), s, n - 1)

\* C13: decodeBase62(s) throws the invalid-character error exactly when s has
\* a character outside the 62-symbol alphabet; otherwise, for a string of any
\* length, it returns the base-62 value of s read left to right (0 for the
\* empty string).
C13_DecodeThrowsOnlyOnForeignCharacter ==
    IsDefined(decoded) =>
        LET s == Val(decInput)
        IN  IF \E i \in 1..Len(s) : ~IsAlnum(s[i])
            THEN LET first == CHOOSE i \in 1..Len(s) :
                                  /\ ~IsAlnum(s[i])
                                  /\ \A j \in 1..(i - 1) : IsAlnum(s[j])
                 IN  Val(decoded) = Throw(INVALID_CHARACTER(s[first], first - 1))
            ELSE /\ ~Val(decoded).threw
                 /\ HasDigits(Val(decoded).value, s, Len(s))

\* C13 witness: decodeBase62 has thrown on 'A!', whose first character is in
\* the alphabet and whose second is not, with a message that ends in
\* '! at position 1'
C13_Witness ==
    /\ IsDefined(decoded)
    /\ Val(decInput) = <<65, 33>>
    /\ Val(decoded).threw
    /\ Val(decoded).error = INVALID_CHARACTER_PREFIX \o <<33>> \o AT_POSITION \o <<49>>

-----------------------------------------------------------------------------
\* C14: for in-range timestamps, two calls that differ in nowMs or in the
\* entropy taken modulo 2^64 return different strings.
C14_Injective ==
    /\ Returned(result)
    /\ Returned(earlierResult)
    /\ \/ NowOf(Val(call)) # NowOf(Val(earlierCall))
       \/ EntropyOf(Val(call)) # EntropyOf(Val(earlierCall))
    => Val(result).value # Val(earlierResult).value

\* C14 witness: two calls at the same millisecond with entropies 0 and 1 have
\* both returned
C14_Witness ==
    /\ Returned(result)
    /\ Returned(earlierResult)
    /\ NowOf(Val(call)) = NowOf(Val(earlierCall))
    /\ EntropyOf(Val(call)) = <<>>
    /\ EntropyOf(Val(earlierCall)) = One

-----------------------------------------------------------------------------
\* what the call of a task returns when it is run alone
AloneOutcome(t) ==
    IF t.kind = "generate" THEN generateSolidId(t.arg.options, t.arg.env)
    ELSE parseSolidId(t.arg)

\* C15: whatever the order of the steps of generate and parse calls in
\* progress together, each call returns what it returns when run alone, and
\* no call changes the CRC table or the alphabet index after initialization.
C15_InterleavingFree ==
    /\ CRC_TABLE = CrcTableInit
    /\ ALPHABET_INDEX = AlphabetIndexInit
    /\ \A i \in 1..Len(tasks) :
          tasks[i].pc = "done" => Val(tasks[i].out) = AloneOutcome(tasks[i])

\* C15 witness: a generate call that returned and a parse call that found a
\* valid identifier have both finished after steps taken in the middle of
\* another call
C15_Witness ==
    /\ \E i \in 1..Len(tasks) :
          /\ tasks[i].kind = "generate"
          /\ tasks[i].pc = "done"
          /\ tasks[i].interleaved
          /\ ~Val(tasks[i].out).threw
    /\ \E i \in 1..Len(tasks) :
          /\ tasks[i].kind = "parse"
          /\ tasks[i].pc = "done"
          /\ tasks[i].interleaved
          /\ Val(tasks[i].out).status = "OK"

-----------------------------------------------------------------------------
\* CRC-16/CCITT one bit at a time: the register is shifted left, and the
\* polynomial 0x1021 is added when the bit shifted out is 1
ReferenceShift(crc) ==
    IF crc >= 32768 THEN BitXor((crc * 2) % 65536, 4129) ELSE (crc * 2) % 65536

RECURSIVE ReferenceShifts(_, _)
ReferenceShifts(crc, k) ==
    IF k = 0 THEN crc ELSE ReferenceShift(ReferenceShifts(crc, k - 1))

\* the register after the first n bytes, from 0xFFFF, each byte added to the
\* high half, without reflection and without a final xor
RECURSIVE ReferenceCrc(_, _)
ReferenceCrc(input, n) ==
    IF n = 0 THEN 65535
    ELSE ReferenceShifts(BitXor(ReferenceCrc(input, n - 1), input[n] * 256), 8)

\* C16: crc16CCITT, driven by the table, returns the bit-by-bit CRC-16/CCITT
\* (polynomial 0x1021, initial value 0xFFFF, no reflection, no final xor) of
\* every byte sequence, a value in 0..65535; entry i of the table is the
\* register i << 8 after 8 shifts.
C16_TableMatchesBitwise ==
    /\ \A i \in 0..255 : CRC_TABLE[i] = ReferenceShifts(i * 256, 8)
    /\ IsDefined(crcCall) =>
          /\ Val(crcCall).value = ReferenceCrc(Val(crcCall).input, Len(Val(crcCall).input))
          /\ Val(crcCall).value \in 0..65535

\* C16 witness: crc16CCITT has returned 0x29B1 for '123456789', the check
\* value of this CRC
C16_Witness ==
    /\ IsDefined(crcCall)
    /\ Val(crcCall).input = <<49, 50, 51, 52, 53, 54, 55, 56, 57>>
    /\ Val(crcCall).value = 10673

-----------------------------------------------------------------------------
\* C17: parseSolidId never returns the status DECODE_ERROR: a string that gets
\* as far as decodeBase62 has only alphabet characters, and decodeBase62 does
\* not throw on those.
C17_NoDecodeError ==
    IsDefined(parsed) => Val(parsed).status # "DECODE_ERROR"

\* C17 witness: 22 'z', the largest string of the right length, has been
\* decoded and parsed down to the checksum comparison
C17_Witness ==
    /\ text = Some(Repeat(122, 22))
    /\ IsDefined(parsed)
    /\ Val(parsed).status = "INVALID_CHECKSUM"

-----------------------------------------------------------------------------
\* the bytes a value needs: bigintToBytes(value, n) drops what is above n bytes
BytesNeeded(value) == Len(Norm(value))

\* C18, as stated: on the generate path and on the parse path bigintToBytes is
\* never called with a value that needs more bytes than it is asked for: the
\* timestamp, written on 6 bytes, is at most 2^48 - 1 and the entropy, written
\* on 8 bytes, at most 2^64 - 1, for every generate input and for every string
\* that parseSolidId takes past the alphabet check.
C18_NoTruncation ==
    /\ Returned(result) =>
          /\ BytesNeeded(GeneratedTimestamp) <= 6
          /\ BytesNeeded(GeneratedEntropy) <= 8
    /\ IsDefined(parsed) /\ Val(parsed).status \in {"OK", "INVALID_CHECKSUM"} =>
          /\ BytesNeeded(Val(parsed).timestamp48) <= 6
          /\ BytesNeeded(Val(parsed).entropy64) <= 8

-----------------------------------------------------------------------------
ExtractedFields == {"timestamp48", "entropy64", "checksum16", "computedChecksum16"}

\* C19: a result with status INVALID_CHECKSUM has valid = false, carries
\* timestamp48, entropy64, checksum16 and computedChecksum16 with
\* checksum16 # computedChecksum16, and has no timestampMs; a result with
\* status INVALID_LENGTH or INVALID_FORMAT carries none of the extracted fields.
C19_FieldsByStatus ==
    IsDefined(parsed) =>
        LET p == Val(parsed)
        IN  /\ p.status = "INVALID_CHECKSUM" =>
                  /\ ~p.valid
                  /\ ExtractedFields \subseteq DOMAIN p
                  /\ p.checksum16 # p.computedChecksum16
                  /\ "timestampMs" \notin DOMAIN p
            /\ p.status \in {"INVALID_LENGTH", "INVALID_FORMAT"} =>
                  DOMAIN p \cap ExtractedFields = {}

\* C19 witness: an identifier with one character replaced by an alphabet
\* character has been parsed, and its checksum does not match
C19_Witness ==
    /\ ParsedMutation
    /\ Val(parsed).status = "INVALID_CHECKSUM"
    /\ Val(parsed).timestamp48 = GeneratedTimestamp

-----------------------------------------------------------------------------
\* C20: a generateSolidId call that returns has called getRandomValues exactly
\* once when no rng64 is given, and never when rng64 is given, in which case
\* rng64 has been called exactly once; parseSolidId, validateSolidId and
\* getTimestampFromSolidId read neither the clock nor a random source.
C20_SourcesRead ==
    IsDefined(effects) =>
        LET e == Val(effects)
        IN  /\ e.function = "generateSolidId" /\ ~Val(result).threw =>
                  IF IsDefined(Val(call).options.rng64)
                  THEN e.reads.getRandomValues = 0 /\ e.reads.rng64 = 1
                  ELSE e.reads.getRandomValues = 1 /\ e.reads.rng64 = 0
            /\ e.function \in {"parseSolidId", "validateSolidId", "getTimestampFromSolidId"} =>
                  e.reads = NoEffects

\* C20 witness: a call without rng64 has returned after one getRandomValues call
C20_Witness ==
    /\ IsDefined(effects)
    /\ Val(effects).function = "generateSolidId"
    /\ Returned(result)
    /\ ~IsDefined(Val(call).options.rng64)
    /\ Val(effects).reads.getRandomValues = 1

-----------------------------------------------------------------------------
\* the generateSolidId call that a parse result names: nowMs is its
\* timestampMs and rng64 returns its entropy64, with a crypto object at hand
CallOfParsed(p) ==
    [options |-> [nowMs |-> Some(p.timestampMs), rng64 |-> Some(p.entropy64),
                  crypto |-> Undefined],
     env |-> [dateNow |-> EPOCH_MS, crypto |-> Some(CryptoA)]]

\* C21, as stated: every string that parseSolidId gives the status OK is an
\* identifier generateSolidId can produce: its decoded value is below 2^128,
\* its timestamp48 is at most 2^48 - 1, and generateSolidId with nowMs =
\* timestampMs and entropy = entropy64 of the parse result returns that string.
C21_ParsedIsGenerable ==
    IsDefined(parsed) /\ Val(parsed).status = "OK" =>
        LET p == Val(parsed)
            c == CallOfParsed(p)
        IN  /\ BigLess(decodeBase62(Val(text)).value, TwoTo128)
            /\ ~BigLess(MAX_TIMESTAMP_MS_48, p.timestamp48)
            /\ generateSolidId(c.options, c.env) = Return(Val(text))

====
